---- MODULE Spec2Model ----
(***************************************************************************)
(* Model of mypass/storage.py: the Database class (an encrypted credential *)
(* vault).  The state is one Database object (_data, _key, _salt), the     *)
(* DATABASE file it rewrites on every mutation, a record of the last call  *)
(* made on the object (its arguments, its outcome, _data, _key and _salt   *)
(* before it) and, where two processes write the file, what each has done. *)
(***************************************************************************)
EXTENDS Integers, Sequences, FiniteSets, TLC

\* ------------------------------------------------------------------ bounds
\* Largest number of (domain, username) pairs in the vault, per specification.
MaxCredentials == 3
MaxFileCredentials == 2
\* How many passphrases, salts and initialization vectors there are.
NumPassphrases == 2
NumSalts == 2
NumIVs == 2
\* Largest number of members of a JSON object in a file written by hand.
MaxMembers == 2
MaxFaultCredentials == 2

\* ------------------------------------------------------- program constants
SINGLE_PASSWORD == ""
block_size == 16
SALT_SIZE == 48

\* Database._header_struct.size: the salt, then the iv of one block
header_size == SALT_SIZE + block_size

\* ------------------------------------------------------------ input values
\* A domain is a sequence of characters, so that str.lower() is computed
\* character by character.  A character is a one-letter string, or the name
\* of a Greek letter: "SIGMA" is U+03A3, "sigma" U+03C3 and "fsigma" U+03C2
\* (the form of the small sigma that ends a word).
Domains == { <<"A", "b">>, <<"a", "B">>, <<"c">> }
GreekDomains == { <<"a", "SIGMA">>, <<"a", "sigma">> }
AllDomains == Domains \cup GreekDomains
Usernames == {SINGLE_PASSWORD, "alice", "bob"}
Passwords == {"p1", "p2"}
PassphraseNames == <<"P1", "P2", "P3">>
Passphrases == {PassphraseNames[i] : i \in 1..NumPassphrases}
Salts == 1..NumSalts
IVs == 1..NumIVs

\* --------------------------------------------------------------- str, dict
\* The lower case of one character.
LowerChar(c) ==
    CASE c = "A" -> "a"
      [] c = "B" -> "b"
      [] c = "C" -> "c"
      [] c = "SIGMA" -> "sigma"
      [] OTHER -> c

\* Every character of the model is a cased letter.
Cased(c) == TRUE

\* Whether the capital sigma at position i ends a word: a cased letter
\* before it and none after it.
FinalSigma(s, i) ==
    /\ i > 1
    /\ Cased(s[i - 1])
    /\ (i = Len(s) \/ ~Cased(s[i + 1]))

\* str.lower(): each character in lower case, a capital sigma that ends a
\* word as the final small sigma.
lower(s) ==
    [i \in 1..Len(s) |->
        IF s[i] = "SIGMA" /\ FinalSigma(s, i) THEN "fsigma" ELSE LowerChar(s[i])]

\* A dict is a function on the set of its keys.
EmptyDict == <<>>

DictSet(d, k, v) == [x \in (DOMAIN d) \cup {k} |-> IF x = k THEN v ELSE d[x]]

DictDel(d, k) == [x \in (DOMAIN d) \ {k} |-> d[x]]

\* Code point of a character, for the order Python's sorted() puts strings in.
ord(c) ==
    CASE c = "A" -> 65
      [] c = "B" -> 66
      [] c = "C" -> 67
      [] c = "a" -> 97
      [] c = "b" -> 98
      [] c = "c" -> 99
      [] c = "SIGMA" -> 931
      [] c = "fsigma" -> 962
      [] c = "sigma" -> 963
      [] OTHER -> 0

\* s < t for two domain strings (lexicographic by code point).
RECURSIVE StrLess(_, _)
StrLess(s, t) ==
    IF s = <<>> THEN t # <<>>
    ELSE IF t = <<>> THEN FALSE
    ELSE IF ord(Head(s)) # ord(Head(t)) THEN ord(Head(s)) < ord(Head(t))
    ELSE StrLess(Tail(s), Tail(t))

\* The usernames in the order of Python's string comparison.
UserOrder == <<SINGLE_PASSWORD, "alice", "bob">>

\* Every domain string of the model and its lower-cased form, in increasing
\* order.
RECURSIVE Ascending(_)
Ascending(S) ==
    IF S = {} THEN <<>>
    ELSE LET m == CHOOSE x \in S : \A y \in S \ {x} : StrLess(x, y)
         IN <<m>> \o Ascending(S \ {m})

DomainOrder == Ascending(AllDomains \cup {lower(d) : d \in AllDomains})

\* sorted() of a set of domain strings, as a sequence.
SortedDomains(S) == SelectSeq(DomainOrder, LAMBDA x : x \in S)

\* sorted() of a set of usernames, as a sequence.
SortedUsers(S) == SelectSeq(UserOrder, LAMBDA x : x \in S)

\* -------------------------------------------------------------------- json
\* A JSON object in text form is the sequence of its members <<name, value>>
\* in the order they are written.  The members are written here in sorted
\* order of their names (a dict is iterated in insertion order, which the
\* model of a dict does not keep; json.loads of members with distinct names
\* gives the same dict in any order).

\* json.dumps of a credentials dict {username: password}
DumpCredentials(credentials) ==
    LET names == SortedUsers(DOMAIN credentials)
    IN [i \in 1..Len(names) |-> <<names[i], credentials[names[i]]>>]

\* A JSON value of the text: an object with its members in the order of the
\* text, or a value of another type with the characters it is written with.
\* The members of a credentials object are written <<username, password>>.
Object(members) == [type |-> "object", members |-> members, literal |-> ""]

Literal(type, characters) ==
    [type |-> type, members |-> <<>>, literal |-> characters]

\* json.dumps of a dict {domain: {username: password}}
json_dumps(obj) ==
    LET names == SortedDomains(DOMAIN obj)
    IN Object([i \in 1..Len(names) |->
                  <<names[i], Object(DumpCredentials(obj[names[i]]))>>])

\* json.loads of one object: a later member replaces an earlier one of the
\* same name.
LoadObject(members) ==
    [n \in {members[i][1] : i \in 1..Len(members)} |->
        LET last == CHOOSE i \in 1..Len(members) :
                        /\ members[i][1] = n
                        /\ \A j \in (i + 1)..Len(members) : members[j][1] # n
        IN members[last][2]]

\* json.loads of a text: a dict for an object, whose values are dicts for
\* the objects and the values as read for the others; the value as read for
\* a text that is not an object.
json_loads(text) ==
    IF text.type = "object"
    THEN LET outer == LoadObject(text.members)
         IN [d \in DOMAIN outer |->
                IF outer[d].type = "object"
                THEN LoadObject(outer[d].members)
                ELSE outer[d]]
    ELSE text

\* Number of bytes of the UTF-8 encoding of a domain: two for a Greek
\* letter, one for an ASCII letter.
RECURSIVE Utf8Len(_)
Utf8Len(s) ==
    IF s = <<>> THEN 0
    ELSE (IF Head(s) \in {"SIGMA", "sigma", "fsigma"} THEN 2 ELSE 1)
         + Utf8Len(Tail(s))

\* Number of bytes of the UTF-8 encoding of json.dumps' output (written with
\* ensure_ascii=False): a string is written between quotes, members are
\* separated by ", " and a name from its value by ": ".
RECURSIVE CredentialsLen(_, _)
CredentialsLen(members, i) ==
    IF i > Len(members) THEN 0
    ELSE (IF i > 1 THEN 2 ELSE 0)
         + (Len(members[i][1]) + 2) + 2 + (Len(members[i][2]) + 2)
         + CredentialsLen(members, i + 1)

\* a string literal is written between quotes, any other as it is
LiteralLen(value) ==
    Len(value.literal) + (IF value.type = "string" THEN 2 ELSE 0)

RECURSIVE MembersLen(_, _)
MembersLen(members, i) ==
    IF i > Len(members) THEN 0
    ELSE (IF i > 1 THEN 2 ELSE 0)
         + (Utf8Len(members[i][1]) + 2) + 2
         + (IF members[i][2].type = "object"
            THEN 2 + CredentialsLen(members[i][2].members, 1)
            ELSE LiteralLen(members[i][2]))
         + MembersLen(members, i + 1)

TextLen(text) ==
    IF text.type = "object"
    THEN 2 + MembersLen(text.members, 1)
    ELSE LiteralLen(text)

\* ------------------------------------------------------------------ crypto
\* Crypto.Protocol.KDF.PBKDF2: a deterministic function of the passphrase
\* and the salt, taken to be injective.
PBKDF2(passphrase, salt) == <<passphrase, salt>>

\* The passphrase a key was derived from.
PassphraseOf(k) == k[1]

\* AES-CBC encryption of a padded plaintext: the ciphertext remembers the
\* key and the iv it was made with.
encrypt(key, iv, plaintext) == [key |-> key, iv |-> iv, plaintext |-> plaintext]

\* What decryption under another key or iv gives: bytes that are not the
\* UTF-8 encoding of a JSON text.
Garbage == [valid |-> FALSE]

decrypt_cipher(key, iv, ciphertext) ==
    IF ciphertext.key = key /\ ciphertext.iv = iv
    THEN ciphertext.plaintext
    ELSE Garbage

\* ---------------------------------------------------------------- Database
VARIABLES
    data,       \* self._data: {domain.lower(): (domain, {username: password})}
    key,        \* self._key
    salt,       \* self._salt
    file,       \* the bytes of the DATABASE file
    call,       \* the last call made on the object, with its arguments
    result,     \* its outcome: "ok" or the exception it raised
    pre,        \* self._data before that call
    wrote,      \* whether that call wrote the file
    prekey,     \* self._key before that call
    presalt,    \* self._salt before that call
    writers     \* the processes that write the file at the same time

vars ==
    <<data, key, salt, file, call, result, pre, wrote, prekey, presalt, writers>>

\* flatten with the lower-cased key written in place of the domain.
flatten_keys(d) == [k \in DOMAIN d |-> d[k][2]]

\* dict(self._data.values()): the records (domain, credentials) as a dict
flatten(d) ==
    [dom \in {d[k][1] : k \in DOMAIN d} |->
        (CHOOSE r \in {d[k] : k \in DOMAIN d} : r[1] = dom)[2]]

\* Number of bytes of a padded plaintext, which is the number of bytes of
\* its ciphertext: AES-CBC encrypts block by block.
PaddedLen(plaintext) == TextLen(plaintext.text) + plaintext.pad

\* Number of bytes of the salt, the iv and the whole ciphertext.
FullSize(bytes) == header_size + PaddedLen(bytes.ciphertext.plaintext)

\* _write that adds no padding to a text that fills its last block.
written_unpadded(d, k, s, iv) ==
    LET text == json_dumps(flatten(d))
        plaintext == [valid |-> TRUE,
                      text |-> text,
                      pad |-> (block_size - (TextLen(text) % block_size))
                                  % block_size]
    IN [salt |-> s, iv |-> iv, ciphertext |-> encrypt(k, iv, plaintext),
        size |-> header_size + PaddedLen(plaintext)]

\* Database._write: the bytes written to the file.  size is the number of
\* bytes the file holds: fewer than FullSize when the file stops short,
\* more when bytes of a longer file follow the ciphertext.
written(d, k, s, iv) ==
    LET text == json_dumps(flatten(d))
        plaintext == [valid |-> TRUE,
                      text |-> text,
                      pad |-> block_size - (TextLen(text) % block_size)]
    IN [salt |-> s, iv |-> iv, ciphertext |-> encrypt(k, iv, plaintext),
        size |-> header_size + PaddedLen(plaintext)]

WrongPassphraseOrBrokenDatabase == "WrongPassphraseOrBrokenDatabase"

\* decrypt with each record stored under its domain as written.
decrypt_as_written(bytes, passphrase) ==
    LET k == PBKDF2(passphrase, bytes.salt)
        plaintext == decrypt_cipher(k, bytes.iv, bytes.ciphertext)
    IN IF \/ bytes.size # FullSize(bytes)
          \/ ~plaintext.valid
          \/ plaintext.text.type # "object"
       THEN [error |-> WrongPassphraseOrBrokenDatabase]
       ELSE LET obj == json_loads(plaintext.text)
            IN [error |-> "none",
                key |-> k,
                salt |-> bytes.salt,
                data |-> [dom \in DOMAIN obj |-> <<dom, obj[dom]>>]]

\* Position of the first member called name: a dict built by json.loads is
\* iterated in the order its names first appear in the text.
FirstIndex(members, name) ==
    CHOOSE i \in 1..Len(members) :
        /\ members[i][1] = name
        /\ \A j \in 1..(i - 1) : members[j][1] # name

\* Whether json.loads accepts the first n bytes of a padded plaintext: the
\* whole text followed by spaces only.  A text cut short does not parse, and
\* neither does a text followed by the bytes a foreign block decrypts to.
Parses(plaintext, n) ==
    /\ TextLen(plaintext.text) <= n
    /\ n <= PaddedLen(plaintext)

\* Database.decrypt from its loop on: the object made of the dict that
\* json.loads returned
loaded(text, k, s) ==
    LET obj == json_loads(text)
        \* the last domain of the loop that is stored under key n
        winner(n) ==
            CHOOSE x \in DOMAIN obj :
                /\ lower(x) = n
                /\ \A y \in DOMAIN obj :
                      lower(y) = n =>
                          FirstIndex(text.members, y) <= FirstIndex(text.members, x)
    IN [error |-> "none",
        key |-> k,
        salt |-> s,
        data |-> [n \in {lower(dom) : dom \in DOMAIN obj} |->
                    <<winner(n), obj[winner(n)]>>]]

\* decrypt that drops the bytes after the last whole block.
decrypt_whole_blocks(bytes, passphrase) ==
    LET k == PBKDF2(passphrase, bytes.salt)
        plaintext == decrypt_cipher(k, bytes.iv, bytes.ciphertext)
        blocks == (bytes.size - header_size) \div block_size
    IN IF \/ bytes.size < header_size
          \/ ~plaintext.valid
          \/ ~Parses(plaintext, blocks * block_size)
          \/ plaintext.text.type # "object"
       THEN [error |-> WrongPassphraseOrBrokenDatabase]
       ELSE loaded(plaintext.text, k, bytes.salt)

\* decrypt that takes every file for a complete one.
decrypt_complete(bytes, passphrase) ==
    LET k == PBKDF2(passphrase, bytes.salt)
        plaintext == decrypt_cipher(k, bytes.iv, bytes.ciphertext)
    IN IF \/ ~plaintext.valid
          \/ plaintext.text.type # "object"
       THEN [error |-> WrongPassphraseOrBrokenDatabase]
       ELSE loaded(plaintext.text, k, bytes.salt)

\* Database.decrypt: the new object, or the exception
decrypt(bytes, passphrase) ==
    LET k == PBKDF2(passphrase, bytes.salt)
        plaintext == decrypt_cipher(k, bytes.iv, bytes.ciphertext)
    IN IF bytes.size < header_size
       THEN \* struct.error: the header is not all there
            [error |-> WrongPassphraseOrBrokenDatabase]
       ELSE IF (bytes.size - header_size) % block_size # 0
       THEN \* ValueError of cipher.decrypt: not a whole number of blocks
            [error |-> WrongPassphraseOrBrokenDatabase]
       ELSE IF ~plaintext.valid
       THEN \* ValueError of decode or of json.loads
            [error |-> WrongPassphraseOrBrokenDatabase]
       ELSE IF ~Parses(plaintext, bytes.size - header_size)
       THEN \* ValueError of json.loads
            [error |-> WrongPassphraseOrBrokenDatabase]
       ELSE IF plaintext.text.type # "object"
       THEN \* not isinstance(data, dict)
            [error |-> WrongPassphraseOrBrokenDatabase]
       ELSE loaded(plaintext.text, k, bytes.salt)

\* The exceptions (mypass/__init__.py names the second CredentialsAlreadytExist).
CredentialsDoNotExist == "CredentialsDoNotExist"
CredentialsAlreadytExist == "CredentialsAlreadytExist"

\* What a method does to self._data: the exception it raises ("none" when it
\* returns), self._data when it ends, and whether it reached self._write().
Returns(d) == [raise |-> "none", data |-> d, write |-> TRUE]
Raises(e, d) == [raise |-> e, data |-> d, write |-> FALSE]

\* get_credentials with the domain looked up as it is spelled.
get_credentials_exact(d, domain) ==
    IF domain \notin DOMAIN d
    THEN [raise |-> CredentialsDoNotExist]
    ELSE LET credentials == d[domain][2]
             names == SortedUsers(DOMAIN credentials)
         IN [raise |-> "none",
             value |-> [i \in 1..Len(names) |-> <<names[i], credentials[names[i]]>>]]

\* Database.get_credentials
get_credentials(d, domain) ==
    IF lower(domain) \notin DOMAIN d
    THEN [raise |-> CredentialsDoNotExist]
    ELSE LET credentials == d[lower(domain)][2]
             names == SortedUsers(DOMAIN credentials)
         IN [raise |-> "none",
             value |-> [i \in 1..Len(names) |-> <<names[i], credentials[names[i]]>>]]

\* Database.get_domains
get_domains(d) ==
    LET keys == SortedDomains(DOMAIN d)
    IN [i \in 1..Len(keys) |-> d[keys[i]][1]]

\* store_credentials that keeps the unnamed password under override.
store_credentials_merge(d, domain, username, password, override) ==
    LET domain_lower == lower(domain)
    IN IF domain_lower \notin DOMAIN d
       THEN Returns(DictSet(d, domain_lower,
                            <<domain, DictSet(EmptyDict, username, password)>>))
       ELSE LET credentials == d[domain_lower][2]
            IN IF ~override /\ username \in DOMAIN credentials
               THEN Raises(CredentialsAlreadytExist, d)
               ELSE IF SINGLE_PASSWORD \in DOMAIN credentials /\ ~override
               THEN Raises(CredentialsAlreadytExist, d)
               ELSE Returns(DictSet(d, domain_lower,
                             <<domain, DictSet(credentials, username, password)>>))

\* store_credentials that starts a new dict on every override.
store_credentials_replace(d, domain, username, password, override) ==
    LET domain_lower == lower(domain)
    IN IF domain_lower \notin DOMAIN d
       THEN Returns(DictSet(d, domain_lower,
                            <<domain, DictSet(EmptyDict, username, password)>>))
       ELSE LET credentials == d[domain_lower][2]
            IN IF ~override /\ username \in DOMAIN credentials
               THEN Raises(CredentialsAlreadytExist, d)
               ELSE IF SINGLE_PASSWORD \in DOMAIN credentials /\ ~override
               THEN Raises(CredentialsAlreadytExist, d)
               ELSE IF override
               THEN Returns(DictSet(d, domain_lower,
                             <<domain, DictSet(EmptyDict, username, password)>>))
               ELSE Returns(DictSet(d, domain_lower,
                             <<domain, DictSet(credentials, username, password)>>))

\* store_credentials with the username stored before the mode is checked.
store_credentials_early(d, domain, username, password, override) ==
    LET domain_lower == lower(domain)
    IN IF domain_lower \notin DOMAIN d
       THEN Returns(DictSet(d, domain_lower,
                            <<domain, DictSet(EmptyDict, username, password)>>))
       ELSE LET credentials == d[domain_lower][2]
                stored == DictSet(d, domain_lower,
                             <<d[domain_lower][1],
                               DictSet(credentials, username, password)>>)
            IN IF ~override /\ username \in DOMAIN credentials
               THEN Raises(CredentialsAlreadytExist, d)
               ELSE IF SINGLE_PASSWORD \in DOMAIN credentials
               THEN IF ~override
                    THEN Raises(CredentialsAlreadytExist, stored)
                    ELSE Returns(DictSet(d, domain_lower,
                             <<domain, DictSet(EmptyDict, username, password)>>))
               ELSE Returns(DictSet(d, domain_lower,
                             <<domain, DictSet(credentials, username, password)>>))

\* Database.store_credentials, up to its call of self._write()
store_credentials(d, domain, username, password, override) ==
    LET domain_lower == lower(domain)
    IN IF domain_lower \notin DOMAIN d
       THEN Returns(DictSet(d, domain_lower,
                            <<domain, DictSet(EmptyDict, username, password)>>))
       ELSE LET credentials == d[domain_lower][2]
            IN IF ~override /\ username \in DOMAIN credentials
               THEN Raises(CredentialsAlreadytExist, d)
               ELSE IF SINGLE_PASSWORD \in DOMAIN credentials
               THEN IF ~override
                    THEN Raises(CredentialsAlreadytExist, d)
                    ELSE Returns(DictSet(d, domain_lower,
                             <<domain, DictSet(EmptyDict, username, password)>>))
               ELSE Returns(DictSet(d, domain_lower,
                             <<domain, DictSet(credentials, username, password)>>))

\* store_password that adds the unnamed password to the stored usernames.
store_password_merge(d, domain, password, override) ==
    LET domain_lower == lower(domain)
    IN IF ~override /\ domain_lower \in DOMAIN d
       THEN Raises(CredentialsAlreadytExist, d)
       ELSE IF domain_lower \in DOMAIN d
       THEN Returns(DictSet(d, domain_lower,
                <<domain, DictSet(d[domain_lower][2], SINGLE_PASSWORD, password)>>))
       ELSE Returns(DictSet(d, domain_lower,
                            <<domain, DictSet(EmptyDict, SINGLE_PASSWORD, password)>>))

\* Database.store_password, up to its call of self._write()
store_password(d, domain, password, override) ==
    LET domain_lower == lower(domain)
    IN IF ~override /\ domain_lower \in DOMAIN d
       THEN Raises(CredentialsAlreadytExist, d)
       ELSE Returns(DictSet(d, domain_lower,
                            <<domain, DictSet(EmptyDict, SINGLE_PASSWORD, password)>>))

\* delete_credentials that removes the record with the username.
delete_credentials_all(d, domain, username) ==
    LET domain_lower == lower(domain)
    IN IF domain_lower \notin DOMAIN d
       THEN Raises(CredentialsDoNotExist, d)
       ELSE IF username \notin DOMAIN d[domain_lower][2]
       THEN Raises(CredentialsDoNotExist, d)
       ELSE Returns(DictDel(d, domain_lower))

\* delete_credentials without the removal of a record left empty.
delete_credentials_keep(d, domain, username) ==
    LET domain_lower == lower(domain)
    IN IF domain_lower \notin DOMAIN d
       THEN Raises(CredentialsDoNotExist, d)
       ELSE IF username \notin DOMAIN d[domain_lower][2]
       THEN Raises(CredentialsDoNotExist, d)
       ELSE Returns(DictSet(d, domain_lower,
                            <<d[domain_lower][1],
                              DictDel(d[domain_lower][2], username)>>))

\* Database.delete_credentials, up to its call of self._write().  del works
\* on the dict the record holds, so the record keeps its domain.
delete_credentials(d, domain, username) ==
    LET domain_lower == lower(domain)
    IN IF domain_lower \notin DOMAIN d
       THEN Raises(CredentialsDoNotExist, d)
       ELSE IF username \notin DOMAIN d[domain_lower][2]
       THEN Raises(CredentialsDoNotExist, d)
       ELSE LET credentials == DictDel(d[domain_lower][2], username)
            IN IF credentials = EmptyDict
               THEN Returns(DictDel(d, domain_lower))
               ELSE Returns(DictSet(d, domain_lower,
                                    <<d[domain_lower][1], credentials>>))

\* delete_domain that deletes every record.
delete_domain_all(d, domain) ==
    IF lower(domain) \notin DOMAIN d
    THEN Raises(CredentialsDoNotExist, d)
    ELSE Returns(EmptyDict)

\* Database.delete_domain, up to its call of self._write()
delete_domain(d, domain) ==
    IF lower(domain) \notin DOMAIN d
    THEN Raises(CredentialsDoNotExist, d)
    ELSE Returns(DictDel(d, lower(domain)))

\* ----------------------------------------------------------------- actions
NoDomain == <<>>

Call(op, domain, username, password, override, passphrase) ==
    [op |-> op, domain |-> domain, username |-> username,
     password |-> password, override |-> override, passphrase |-> passphrase]

\* Number of (domain, username) pairs stored in self._data.
RECURSIVE CountCredentials(_)
CountCredentials(d) ==
    IF d = EmptyDict THEN 0
    ELSE LET k == CHOOSE x \in DOMAIN d : TRUE
         IN Cardinality(DOMAIN d[k][2]) + CountCredentials(DictDel(d, k))

\* Mutation with a salt drawn for every write.
MutationFreshSalt(in, c, out) ==
    /\ CountCredentials(out.data) <= in.max
    /\ call' = c
    /\ pre' = data
    /\ result' = IF out.raise = "none" THEN "ok" ELSE out.raise
    /\ data' = out.data
    /\ wrote' = out.write
    /\ IF out.write
       THEN \E iv \in in.ivs, s \in in.salts :
               /\ salt' = s
               /\ file' = written(out.data, key, s, iv)
       ELSE file' = file /\ salt' = salt
    /\ prekey' = key
    /\ presalt' = salt
    /\ UNCHANGED <<key, writers>>

\* A call of a method that changes self._data: what the method did, then
\* self._write() under a fresh iv when it was reached.  in holds the sets
\* the arguments and the random bytes are drawn from, and the largest vault
\* explored.
Mutation(in, c, out) ==
    /\ CountCredentials(out.data) <= in.max
    /\ call' = c
    /\ pre' = data
    /\ result' = IF out.raise = "none" THEN "ok" ELSE out.raise
    /\ data' = out.data
    /\ wrote' = out.write
    /\ IF out.write
       THEN \E iv \in in.ivs : file' = written(out.data, key, salt, iv)
       ELSE file' = file
    /\ prekey' = key
    /\ presalt' = salt
    /\ UNCHANGED <<key, salt, writers>>

StoreCredentials(in) ==
    \E domain \in in.domains, username \in in.usernames,
       password \in in.passwords, override \in BOOLEAN :
        Mutation(in,
                 Call("store_credentials", domain, username, password, override, ""),
                 store_credentials(data, domain, username, password, override))

StorePassword(in) ==
    \E domain \in in.domains, password \in in.passwords, override \in BOOLEAN :
        Mutation(in,
                 Call("store_password", domain, "", password, override, ""),
                 store_password(data, domain, password, override))

DeleteCredentials(in) ==
    \E domain \in in.domains, username \in in.usernames :
        Mutation(in,
                 Call("delete_credentials", domain, username, "", FALSE, ""),
                 delete_credentials(data, domain, username))

DeleteDomain(in) ==
    \E domain \in in.domains :
        Mutation(in,
                 Call("delete_domain", domain, "", "", FALSE, ""),
                 delete_domain(data, domain))

\* change_passphrase with the file written under the key of before.
ChangePassphraseOldKey(in) ==
    \E passphrase \in in.passphrases, s \in in.salts, iv \in in.ivs :
        /\ call' = Call("change_passphrase", NoDomain, "", "", FALSE, passphrase)
        /\ pre' = data
        /\ result' = "ok"
        /\ key' = PBKDF2(passphrase, s)
        /\ salt' = s
        /\ file' = written(data, key, salt', iv)
        /\ wrote' = TRUE
        /\ prekey' = key
        /\ presalt' = salt
        /\ UNCHANGED <<data, writers>>

\* Database.change_passphrase: _init_key with os.urandom(SALT_SIZE), _write
ChangePassphrase(in) ==
    \E passphrase \in in.passphrases, s \in in.salts, iv \in in.ivs :
        /\ call' = Call("change_passphrase", NoDomain, "", "", FALSE, passphrase)
        /\ pre' = data
        /\ result' = "ok"
        /\ key' = PBKDF2(passphrase, s)
        /\ salt' = s
        /\ file' = written(data, key', salt', iv)
        /\ wrote' = TRUE
        /\ prekey' = key
        /\ presalt' = salt
        /\ UNCHANGED <<data, writers>>

\* A later run of the program: Database.decrypt on the bytes of the file.
\* When it raises, no new object replaces the one at hand.
Decrypt(in) ==
    \E passphrase \in in.passphrases :
        LET db == decrypt(file, passphrase)
        IN /\ call' = Call("decrypt", NoDomain, "", "", FALSE, passphrase)
           /\ pre' = data
           /\ wrote' = FALSE
           /\ IF db.error = "none"
              THEN /\ result' = "ok"
                   /\ data' = db.data
                   /\ key' = db.key
                   /\ salt' = db.salt
              ELSE /\ result' = db.error
                   /\ UNCHANGED <<data, key, salt>>
           /\ prekey' = key
           /\ presalt' = salt
           /\ UNCHANGED <<file, writers>>

\* No process writes the file beside the one at hand.
NoWriters == [proc |-> <<>>, log |-> <<>>]

\* Database.create: an empty object, then change_passphrase
Create(in) ==
    \E passphrase \in in.passphrases, s \in in.salts, iv \in in.ivs :
        /\ data = EmptyDict
        /\ key = PBKDF2(passphrase, s)
        /\ salt = s
        /\ file = written(EmptyDict, key, salt, iv)
        /\ call = Call("create", NoDomain, "", "", FALSE, passphrase)
        /\ result = "ok"
        /\ pre = EmptyDict
        /\ wrote = TRUE
        /\ prekey = key
        /\ presalt = salt
        /\ writers = NoWriters

Step(in) ==
    \/ StoreCredentials(in)
    \/ StorePassword(in)
    \/ DeleteCredentials(in)
    \/ DeleteDomain(in)
    \/ ChangePassphrase(in)
    \/ Decrypt(in)

\* The credential store: every domain, username and password, under one
\* passphrase, salt and iv.
StoreInputs ==
    [domains |-> Domains, usernames |-> Usernames, passwords |-> Passwords,
     passphrases |-> {PassphraseNames[1]}, salts |-> {1}, ivs |-> {1},
     max |-> MaxCredentials]

Init == Create(StoreInputs)

Next == Step(StoreInputs)

Spec == Init /\ [][Next]_vars

\* The vault file: every passphrase, salt and iv, over a smaller vault.
FileInputs ==
    [domains |-> Domains, usernames |-> {SINGLE_PASSWORD, "alice"},
     passwords |-> {"p1"},
     passphrases |-> Passphrases, salts |-> Salts, ivs |-> IVs,
     max |-> MaxFileCredentials]

FileInit == Create(FileInputs)

FileNext == Step(FileInputs)

FileSpec == FileInit /\ [][FileNext]_vars

\* A file written by hand: the text of any object of objects of at most
\* MaxMembers members, padded and encrypted as _write does.
HandCredentials ==
    { <<>>, << <<SINGLE_PASSWORD, "p1">> >>, << <<"alice", "p1">> >> }

HandMembers == {<<d, Object(c)>> : d \in Domains, c \in HandCredentials}

HandTexts == {Object(m) : m \in UNION {[1..n -> HandMembers] : n \in 0..MaxMembers}}

HandFile(text, k, s, iv) ==
    LET plaintext == [valid |-> TRUE, text |-> text,
                      pad |-> block_size - (TextLen(text) % block_size)]
    IN [salt |-> s, iv |-> iv, ciphertext |-> encrypt(k, iv, plaintext),
        size |-> header_size + PaddedLen(plaintext)]

\* A run of the program that starts with Database.decrypt on such a file.
Load(in) ==
    \E text \in HandTexts, passphrase \in in.passphrases,
       s \in in.salts, iv \in in.ivs :
        LET db == decrypt(HandFile(text, PBKDF2(passphrase, s), s, iv), passphrase)
        IN /\ file = HandFile(text, PBKDF2(passphrase, s), s, iv)
           /\ db.error = "none"
           /\ data = db.data
           /\ key = db.key
           /\ salt = db.salt
           /\ call = Call("decrypt", NoDomain, "", "", FALSE, passphrase)
           /\ result = "ok"
           /\ pre = EmptyDict
           /\ wrote = FALSE
           /\ prekey = key
           /\ presalt = salt
           /\ writers = NoWriters

\* The vault after create or after decrypt of a file written by hand, with
\* domains in every spelling.
LoadInputs ==
    [domains |-> AllDomains, usernames |-> {SINGLE_PASSWORD, "alice"},
     passwords |-> {"p1"},
     passphrases |-> {PassphraseNames[1]}, salts |-> {1}, ivs |-> {1},
     max |-> MaxFileCredentials]

LoadInit == Create(LoadInputs) \/ Load(LoadInputs)

LoadNext == Step(LoadInputs)

LoadSpec == LoadInit /\ [][LoadNext]_vars

\* ------------------------------------------------- payloads of any shape
\* The values of a payload written by hand: credentials, or a number or a
\* string where credentials are expected.
ShapeValues ==
    {Object(<<>>), Object(<< <<SINGLE_PASSWORD, "p1">> >>),
     Literal("number", "5"), Literal("string", "p1")}

ShapeMembers == {<<d, v>> : d \in {<<"c">>, <<"A", "b">>}, v \in ShapeValues}

\* The payloads: an object of at most MaxMembers members, or a text that is
\* a number, a string or an array.
ShapeTexts ==
    {Object(m) : m \in UNION {[1..n -> ShapeMembers] : n \in 0..MaxMembers}}
    \cup {Literal("number", "5"), Literal("string", "p1"), Literal("array", "[]")}

\* The program has read the bytes of a file written by hand and has made
\* no Database object yet.
Read(in) ==
    \E text \in ShapeTexts, passphrase \in in.passphrases,
       s \in in.salts, iv \in in.ivs :
        /\ file = HandFile(text, PBKDF2(passphrase, s), s, iv)
        /\ data = EmptyDict
        /\ key = PBKDF2(passphrase, s)
        /\ salt = s
        /\ call = Call("read", NoDomain, "", "", FALSE, "")
        /\ result = "ok"
        /\ pre = EmptyDict
        /\ wrote = FALSE
        /\ prekey = key
        /\ presalt = salt
        /\ writers = NoWriters

\* Database.decrypt, with the passphrase of the file or with another one,
\* on such bytes.
ShapeInputs ==
    [domains |-> {}, usernames |-> {}, passwords |-> {},
     passphrases |-> Passphrases, salts |-> {1}, ivs |-> {1},
     max |-> MaxMembers]

ShapeInit == Read(ShapeInputs)

ShapeNext == Decrypt(ShapeInputs)

ShapeSpec == ShapeInit /\ [][ShapeNext]_vars

\* ------------------------------------------------------- writes that fail
\* The first n bytes of a file.
Prefix(bytes, n) == [bytes EXCEPT !.size = n]

\* The calls of the four methods that change self._data, each with what the
\* method does to the entries d up to its call of self._write().
MutatorCalls(in, d) ==
    {[c |-> Call("store_credentials", domain, username, password, override, ""),
      out |-> store_credentials(d, domain, username, password, override)] :
        domain \in in.domains, username \in in.usernames,
        password \in in.passwords, override \in BOOLEAN}
    \cup
    {[c |-> Call("store_password", domain, "", password, override, ""),
      out |-> store_password(d, domain, password, override)] :
        domain \in in.domains, password \in in.passwords, override \in BOOLEAN}
    \cup
    {[c |-> Call("delete_credentials", domain, username, "", FALSE, ""),
      out |-> delete_credentials(d, domain, username)] :
        domain \in in.domains, username \in in.usernames}
    \cup
    {[c |-> Call("delete_domain", domain, "", "", FALSE, ""),
      out |-> delete_domain(d, domain)] :
        domain \in in.domains}

\* The process has a Database object: it was not killed, and its decrypt
\* did not raise.
Alive == result \notin {"killed", WrongPassphraseOrBrokenDatabase}

\* A call whose self._write() raises OSError: open() refuses and the file is
\* as it was, or open() has emptied the file and no byte can be written.
\* The exception leaves the method after self._data was changed.
FailedWrite(in) ==
    /\ Alive
    /\ \E m \in MutatorCalls(in, data) :
        /\ m.out.write
        /\ CountCredentials(m.out.data) <= in.max
        /\ call' = m.c
        /\ pre' = data
        /\ result' = "OSError"
        /\ data' = m.out.data
        /\ wrote' = FALSE
        /\ \/ file' = file
           \/ \E iv \in in.ivs :
                 file' = Prefix(written(m.out.data, key, salt, iv), 0)
        /\ prekey' = key
        /\ presalt' = salt
        /\ UNCHANGED <<key, salt, writers>>

\* A call whose process is killed while self._write() writes: the file keeps
\* the first n bytes of the complete write, n less than its size.
InterruptedWrite(in) ==
    /\ Alive
    /\ \E m \in MutatorCalls(in, data), iv \in in.ivs :
        LET complete == written(m.out.data, key, salt, iv)
        IN /\ m.out.write
           /\ CountCredentials(m.out.data) <= in.max
           /\ call' = m.c
           /\ pre' = data
           /\ result' = "killed"
           /\ data' = m.out.data
           /\ wrote' = FALSE
           /\ \E n \in 0..(complete.size - 1) : file' = Prefix(complete, n)
           /\ prekey' = key
           /\ presalt' = salt
           /\ UNCHANGED <<key, salt, writers>>

\* The vault under one passphrase, with writes that fail and, after a
\* killed process or a decrypt that raised, a run that starts with decrypt.
FaultInputs ==
    [domains |-> {<<"c">>}, usernames |-> Usernames, passwords |-> {"x"},
     passphrases |-> {PassphraseNames[1]}, salts |-> {1}, ivs |-> {1},
     max |-> MaxFaultCredentials]

FaultInit == Create(FaultInputs)

FaultNext ==
    \/ Alive /\ Step(FaultInputs)
    \/ ~Alive /\ Decrypt(FaultInputs)
    \/ FailedWrite(FaultInputs)
    \/ InterruptedWrite(FaultInputs)

FaultSpec == FaultInit /\ [][FaultNext]_vars

\* ------------------------------------------------------------ two writers
\* Two processes, each with its own Database object, write the one file.
Procs == {1, 2}

\* Both processes load the file: Database.decrypt with its passphrase.
Fork(in) ==
    LET db == decrypt(file, PassphraseOf(key))
        loaded_object == [pc |-> "loaded", data |-> db.data, bytes |-> file,
                          call |-> Call("decrypt", NoDomain, "", "", FALSE,
                                        PassphraseOf(key))]
    IN /\ writers = NoWriters
       /\ db.error = "none"
       /\ writers' = [proc |-> [p \in Procs |-> loaded_object], log |-> <<>>]
       /\ call' = loaded_object.call
       /\ result' = "ok"
       /\ pre' = data
       /\ data' = db.data
       /\ key' = db.key
       /\ salt' = db.salt
       /\ wrote' = FALSE
       /\ prekey' = key
       /\ presalt' = salt
       /\ UNCHANGED file

\* Process p makes one call that changes its entries and reaches
\* self._write(): the bytes are made, and open(DATABASE, 'wb') empties the
\* file.  The three file.write calls fill the buffer of the file object.
Open(in, p) ==
    /\ writers # NoWriters
    /\ writers.proc[p].pc = "loaded"
    /\ \E m \in MutatorCalls(in, writers.proc[p].data), iv \in in.ivs :
        /\ m.out.write
        /\ CountCredentials(m.out.data) <= in.max
        /\ writers' =
              [proc |-> [writers.proc EXCEPT ![p] =
                            [pc |-> "opened", data |-> m.out.data,
                             bytes |-> written(m.out.data, key, salt, iv),
                             call |-> m.c]],
               log |-> Append(writers.log, <<p, "open">>)]
    /\ file' = Prefix(file, 0)
    /\ UNCHANGED <<data, key, salt, call, result, pre, wrote, prekey, presalt>>

\* The end of the with block of process p closes the file: the buffer is
\* written at offset 0, over what the file holds, and what the file holds
\* beyond these bytes stays.
Close(p) ==
    /\ writers # NoWriters
    /\ writers.proc[p].pc = "opened"
    /\ writers' = [proc |-> [writers.proc EXCEPT ![p].pc = "closed"],
                   log |-> Append(writers.log, <<p, "close">>)]
    /\ file' = IF file.size > writers.proc[p].bytes.size
               THEN Prefix(writers.proc[p].bytes, file.size)
               ELSE writers.proc[p].bytes
    /\ UNCHANGED <<data, key, salt, call, result, pre, wrote, prekey, presalt>>

\* One process fills the vault; then two processes load it and each makes
\* one call that writes the file.
RaceInputs ==
    [domains |-> {<<"c">>}, usernames |-> Usernames, passwords |-> {"x"},
     passphrases |-> {PassphraseNames[1]}, salts |-> {1}, ivs |-> {1},
     max |-> MaxFaultCredentials]

RaceInit == Create(RaceInputs)

RaceNext ==
    \/ writers = NoWriters /\ Step(RaceInputs)
    \/ Fork(RaceInputs)
    \/ \E p \in Procs : Open(RaceInputs, p)
    \/ \E p \in Procs : Close(p)

RaceSpec == RaceInit /\ [][RaceNext]_vars

\* ------------------------------------------------------------------ claims
Refused == {CredentialsAlreadytExist, CredentialsDoNotExist}

Mutators ==
    {"store_credentials", "store_password", "delete_credentials", "delete_domain"}

\* single-password mode: exactly one entry, under the reserved username
SingleMode(credentials) == DOMAIN credentials = {SINGLE_PASSWORD}

\* multi-credential mode: every username is non-empty
MultiMode(credentials) ==
    credentials # EmptyDict /\ SINGLE_PASSWORD \notin DOMAIN credentials

\* C1: every record of the vault is in exactly one mode: its credentials
\* are one entry under the empty username, or all its usernames are
\* non-empty.
C1_ModeExclusivity ==
    \A k \in DOMAIN data :
        SingleMode(data[k][2]) \/ MultiMode(data[k][2])

\* C2: a store or delete call that raises CredentialsAlreadytExist or
\* CredentialsDoNotExist leaves self._data and the file as they were and
\* writes nothing.
C2_RefusedCallChangesNothing ==
    [][(call'.op \in Mutators /\ result' \in Refused)
          => (data' = data /\ file' = file /\ ~wrote')]_vars

C2_Witness ==
    /\ call.op = "store_credentials"
    /\ result = CredentialsAlreadytExist
    /\ lower(call.domain) \in DOMAIN data
    /\ ~wrote

\* C3: decrypting the file with the passphrase of the current key succeeds
\* and gives the keys, domains and credentials of self._data.
C3_RoundTrip ==
    LET db == decrypt(file, PassphraseOf(key))
    IN db.error = "none" /\ db.data = data

C3_Witness ==
    /\ call.op = "change_passphrase"
    /\ Cardinality(DOMAIN data) = 2
    /\ \E k \in DOMAIN data : data[k][1] # k
    /\ decrypt(file, PassphraseOf(key)).error = "none"

\* C4: no record has an empty credentials dict, and a delete_credentials
\* call that removes the only username of a domain removes its record.
C4_NoEmptyRecord ==
    /\ \A k \in DOMAIN data : data[k][2] # EmptyDict
    /\ (/\ call.op = "delete_credentials"
        /\ result = "ok"
        /\ DOMAIN pre[lower(call.domain)][2] = {call.username})
         => lower(call.domain) \notin DOMAIN data

C4_Witness ==
    /\ call.op = "delete_credentials"
    /\ result = "ok"
    /\ DOMAIN pre[lower(call.domain)][2] = {call.username}
    /\ lower(call.domain) \notin DOMAIN data
    /\ data # EmptyDict

\* Two characters that are one letter in the same or in different case.
SameLetter(c1, c2) == c1 = c2 \/ LowerChar(c1) = c2 \/ LowerChar(c2) = c1

\* Two strings that are equal or differ only in letter case.
DiffersOnlyInCase(s, t) ==
    Len(s) = Len(t) /\ \A i \in 1..Len(s) : SameLetter(s[i], t[i])

\* C5 as claimed: each key of self._data is the lower-cased domain of its
\* record, and no two records have domains that differ only in letter case.
C5_NoCaseVariants ==
    /\ \A k \in DOMAIN data : k = lower(data[k][1])
    /\ \A k1, k2 \in DOMAIN data :
           DiffersOnlyInCase(data[k1][1], data[k2][1]) => k1 = k2

\* C5 as amended: each key of self._data is the lower-cased domain of its
\* record, so no two records have domains with the same lower-cased form.
C5_NormalizedKey ==
    /\ \A k \in DOMAIN data : k = lower(data[k][1])
    /\ \A k1, k2 \in DOMAIN data :
           lower(data[k1][1]) = lower(data[k2][1]) => k1 = k2

\* a vault loaded from a file that spells one domain in two ways
C5_Witness ==
    /\ call.op = "decrypt"
    /\ pre = EmptyDict
    /\ Len(file.ciphertext.plaintext.text.members) = 2
    /\ file.ciphertext.plaintext.text.members[1][1] = <<"A", "b">>
    /\ file.ciphertext.plaintext.text.members[2][1] = <<"a", "B">>
    /\ DOMAIN data = {<<"a", "b">>}
    /\ data[<<"a", "b">>][1] = <<"a", "B">>

\* The domains get_domains() lists.
Listed(d) == {get_domains(d)[i] : i \in 1..Len(get_domains(d))}

Stored == call.op \in {"store_credentials", "store_password"} /\ result = "ok"

\* What C6 says of the spellings D2 of a stored domain that Same(D2, D)
\* relates to the spelling D of the call.
CaseInsensitiveLookup(Same(_, _)) ==
    /\ Stored =>
         /\ \A D2 \in AllDomains :
                Same(D2, call.domain) => get_credentials(data, D2).raise = "none"
         /\ Cardinality({i \in 1..Len(get_domains(data)) :
                Same(get_domains(data)[i], call.domain)}) = 1
         /\ call.domain \in Listed(data)
    /\ \A D \in Listed(pre) :
         (/\ ~(Stored /\ Same(call.domain, D))
          /\ \E D2 \in Listed(data) : Same(D2, D))
            => D \in Listed(data)

SameLower(s, t) == lower(s) = lower(t)

\* C6 as claimed: after a successful store under domain D, get_credentials
\* succeeds for every D2 that differs from D only in letter case and
\* get_domains() lists the domain once, spelled D; no other call changes the
\* spelling of a domain that stays listed.
C6_AnyCaseVariant == CaseInsensitiveLookup(DiffersOnlyInCase)

\* C6 as amended: the same for every D2 whose lower-cased form is that of D.
C6_CaseInsensitiveLookup == CaseInsensitiveLookup(SameLower)

\* a store that respells a domain stored before
C6_Witness ==
    /\ Stored
    /\ call.domain = <<"A", "b">>
    /\ <<"a", "B">> \in Listed(pre)
    /\ get_credentials(data, <<"a", "B">>).raise = "none"
    /\ get_domains(data) = << <<"A", "b">>, <<"c">> >>

\* C7: on a domain in single-password mode store_credentials raises
\* CredentialsAlreadytExist without override, and with override it succeeds
\* and get_credentials returns the one pair stored.
C7_LeavingSingleMode ==
    (/\ call.op = "store_credentials"
     /\ lower(call.domain) \in DOMAIN pre
     /\ SingleMode(pre[lower(call.domain)][2]))
      => IF ~call.override
         THEN result = CredentialsAlreadytExist
         ELSE /\ result = "ok"
              /\ get_credentials(data, call.domain) =
                    [raise |-> "none",
                     value |-> << <<call.username, call.password>> >>]

C7_Witness ==
    /\ call.op = "store_credentials"
    /\ call.override
    /\ call.username = "alice"
    /\ lower(call.domain) \in DOMAIN pre
    /\ SingleMode(pre[lower(call.domain)][2])
    /\ get_credentials(data, call.domain).value = << <<"alice", call.password>> >>

\* C8: store_password raises CredentialsAlreadytExist when the domain
\* exists and override is false; otherwise it succeeds and the record holds
\* only the empty username, mapped to the password.
C8_StorePassword ==
    call.op = "store_password"
      => IF lower(call.domain) \in DOMAIN pre /\ ~call.override
         THEN result = CredentialsAlreadytExist
         ELSE /\ result = "ok"
              /\ lower(call.domain) \in DOMAIN data
              /\ DOMAIN data[lower(call.domain)][2] = {SINGLE_PASSWORD}
              /\ data[lower(call.domain)][2][SINGLE_PASSWORD] = call.password

\* an override that replaces two named credentials
C8_Witness ==
    /\ call.op = "store_password"
    /\ call.override
    /\ lower(call.domain) \in DOMAIN pre
    /\ DOMAIN pre[lower(call.domain)][2] = {"alice", "bob"}
    /\ DOMAIN data[lower(call.domain)][2] = {SINGLE_PASSWORD}

\* C9: on a domain in multi-credential mode store_credentials of a stored
\* username raises CredentialsAlreadytExist without override and sets its
\* password with override; of a new username it adds the pair whatever
\* override is; the other usernames keep their passwords.
C9_NamedCredential ==
    (/\ call.op = "store_credentials"
     /\ lower(call.domain) \in DOMAIN pre
     /\ MultiMode(pre[lower(call.domain)][2]))
      => LET old == pre[lower(call.domain)][2]
         IN IF call.username \in DOMAIN old /\ ~call.override
            THEN result = CredentialsAlreadytExist
            ELSE /\ result = "ok"
                 /\ lower(call.domain) \in DOMAIN data
                 /\ LET new == data[lower(call.domain)][2]
                    IN /\ DOMAIN new = DOMAIN old \cup {call.username}
                       /\ new[call.username] = call.password
                       /\ \A u \in DOMAIN old \ {call.username} : new[u] = old[u]

\* an override of alice's password beside bob
C9_Witness ==
    /\ call.op = "store_credentials"
    /\ call.override
    /\ call.username = "alice"
    /\ lower(call.domain) \in DOMAIN pre
    /\ DOMAIN pre[lower(call.domain)][2] = {"alice", "bob"}
    /\ pre[lower(call.domain)][2]["alice"] # call.password
    /\ data[lower(call.domain)][2]["alice"] = call.password
    /\ data[lower(call.domain)][2]["bob"] = pre[lower(call.domain)][2]["bob"]

\* C10: delete_credentials raises CredentialsDoNotExist when the domain or
\* the username is absent; otherwise it removes that username alone, and
\* when it was the only one the domain leaves get_domains() and
\* get_credentials raises CredentialsDoNotExist.
C10_DeleteCredentials ==
    call.op = "delete_credentials"
      => IF \/ lower(call.domain) \notin DOMAIN pre
            \/ call.username \notin DOMAIN pre[lower(call.domain)][2]
         THEN result = CredentialsDoNotExist
         ELSE LET old == pre[lower(call.domain)][2]
              IN /\ result = "ok"
                 /\ IF DOMAIN old = {call.username}
                    THEN /\ \A D \in Listed(data) : lower(D) # lower(call.domain)
                         /\ get_credentials(data, call.domain).raise
                                = CredentialsDoNotExist
                    ELSE /\ lower(call.domain) \in DOMAIN data
                         /\ DOMAIN data[lower(call.domain)][2]
                                = DOMAIN old \ {call.username}
                         /\ \A u \in DOMAIN old \ {call.username} :
                                data[lower(call.domain)][2][u] = old[u]

\* the unnamed password of a domain is deleted and the domain disappears
C10_Witness ==
    /\ call.op = "delete_credentials"
    /\ result = "ok"
    /\ call.username = SINGLE_PASSWORD
    /\ SingleMode(pre[lower(call.domain)][2])
    /\ Listed(pre) = {call.domain, <<"c">>}
    /\ Listed(data) = {<<"c">>}

\* C11: after change_passphrase(P2) on a vault whose passphrase was another
\* one, P1, Database.decrypt of the file with P2 returns the entries the
\* vault had, and with P1 it raises WrongPassphraseOrBrokenDatabase.
C11_PassphraseRotation ==
    (/\ call.op = "change_passphrase"
     /\ call.passphrase # PassphraseOf(prekey)) =>
        /\ decrypt(file, call.passphrase).error = "none"
        /\ decrypt(file, call.passphrase).data = pre
        /\ data = pre
        /\ decrypt(file, PassphraseOf(prekey)).error
               = WrongPassphraseOrBrokenDatabase

\* a vault with entries gets another passphrase, the salt drawn being the
\* one it had
C11_Witness ==
    /\ call.op = "change_passphrase"
    /\ call.passphrase # PassphraseOf(prekey)
    /\ salt = presalt
    /\ data # EmptyDict
    /\ decrypt(file, PassphraseOf(prekey)).error = WrongPassphraseOrBrokenDatabase

\* Whether the file has a whole header and then a number of bytes that is
\* not a multiple of the block size.
BadCiphertextLength(bytes) ==
    /\ bytes.size >= header_size
    /\ (bytes.size - header_size) % block_size # 0

C16_PriorStateOnFailedPersist ==
    result = "OSError" => data = pre

\* Whether the file holds fewer bytes than the write that made it.
Short(bytes) == bytes.size < FullSize(bytes)

\* Whether the file lacks exactly one block, all of it padding.
LacksPaddingOnly(bytes) ==
    /\ bytes.size = FullSize(bytes) - block_size
    /\ bytes.ciphertext.plaintext.pad = block_size

\* C17 as stated: Database.decrypt, with the passphrase of the vault, of a
\* file that holds a proper prefix of a complete write raises
\* WrongPassphraseOrBrokenDatabase.
C17_InterruptedWriteDetected ==
    (call.op = "decrypt" /\ Short(file)) =>
        result = WrongPassphraseOrBrokenDatabase

\* The complete write that the file is a prefix of.
Complete(bytes) == Prefix(bytes, FullSize(bytes))

\* C17: Database.decrypt, with the passphrase of the vault, of a file that
\* holds a proper prefix of a complete write raises
\* WrongPassphraseOrBrokenDatabase, except when the prefix lacks one block
\* of padding and nothing else (the text is a multiple of 16 bytes long):
\* then it returns the entries that decrypt of the complete write returns.
C17_InterruptedWrite ==
    (call.op = "decrypt" /\ Short(file)) =>
        IF LacksPaddingOnly(file)
        THEN /\ result = "ok"
             /\ data = decrypt(Complete(file), call.passphrase).data
        ELSE result = WrongPassphraseOrBrokenDatabase

\* the process was killed in a write, then decrypt raised on a file that
\* lacks part of its text
C17_Witness ==
    /\ call.op = "decrypt"
    /\ Short(file)
    /\ file.size >= header_size + block_size
    /\ ~LacksPaddingOnly(file)
    /\ result = WrongPassphraseOrBrokenDatabase

\* Whether a payload is an object whose every value is an object.
ObjectOfObjects(text) ==
    /\ text.type = "object"
    /\ \A i \in 1..Len(text.members) : text.members[i][2].type = "object"

\* C13 as stated: Database.decrypt returns an object only if the payload is
\* an object whose every value is an object; for a payload that is not an
\* object, or that has a value that is not an object, it raises
\* WrongPassphraseOrBrokenDatabase.
C13_PayloadShapeCheck ==
    call.op = "decrypt" =>
        LET payload == file.ciphertext.plaintext.text
        IN /\ result = "ok" => ObjectOfObjects(payload)
           /\ ~ObjectOfObjects(payload) => result = WrongPassphraseOrBrokenDatabase

\* C14 as stated: store_credentials(d, u, p, override=True) returns, and the
\* same call made again at once returns too and leaves the entries as the
\* first call left them.
C14_OverwriteIdempotence ==
    (call.op = "store_credentials" /\ call.override) =>
        LET again == store_credentials(data, call.domain, call.username,
                                       call.password, TRUE)
        IN /\ result = "ok"
           /\ again.raise = "none"
           /\ again.data = data

\* C15: a call of store_credentials, store_password, delete_credentials or
\* delete_domain leaves the salt and the key as they were, and the file it
\* writes carries that salt in its header; the salt and the key of the object
\* change in change_passphrase only (create calls it).
C15_SaltAndKeyFixed ==
    /\ call.op \in Mutators =>
           /\ key = prekey
           /\ salt = presalt
           /\ file.salt = presalt
    /\ (key # prekey \/ salt # presalt) => call.op = "change_passphrase"
    /\ file.salt = salt
    /\ key = PBKDF2(PassphraseOf(key), salt)

\* a call wrote the file of a vault with entries, under the salt and the key
\* of before
C15_Witness ==
    /\ call.op \in Mutators
    /\ wrote
    /\ pre # EmptyDict
    /\ data # pre
    /\ file.salt = presalt
    /\ key = prekey

\* C19: a store or delete call that returns leaves every record under another
\* normalized key than that of its domain as it was, and change_passphrase
\* leaves every record as it was.
C19_Frame ==
    /\ (call.op \in Mutators /\ result = "ok") =>
           \A k \in (DOMAIN pre \cup DOMAIN data) \ {lower(call.domain)} :
               /\ k \in DOMAIN pre
               /\ k \in DOMAIN data
               /\ data[k] = pre[k]
    /\ call.op = "change_passphrase" => data = pre

\* a domain was deleted from a vault that holds another one
C19_Witness ==
    /\ call.op = "delete_domain"
    /\ result = "ok"
    /\ lower(call.domain) \in DOMAIN pre
    /\ data # EmptyDict

\* C20: _write pads a text of n bytes with 16 - (n mod 16) spaces, from 1 to
\* 16 of them, so that the ciphertext is a positive multiple of 16 bytes
\* long and longer than n; the file written is 64 bytes of header and then
\* the ciphertext.
C20_PaddingArithmetic ==
    wrote =>
        LET plaintext == file.ciphertext.plaintext
            n == TextLen(json_dumps(flatten(data)))
        IN /\ TextLen(plaintext.text) = n
           /\ plaintext.pad = 16 - (n % 16)
           /\ plaintext.pad \in 1..16
           /\ PaddedLen(plaintext) % 16 = 0
           /\ PaddedLen(plaintext) > 0
           /\ PaddedLen(plaintext) > n
           /\ file.size = 64 + PaddedLen(plaintext)
           /\ file.size = FullSize(file)

\* a text that fills its last block was written with a whole block of spaces
C20_Witness ==
    /\ wrote
    /\ data # EmptyDict
    /\ TextLen(file.ciphertext.plaintext.text) % 16 = 0
    /\ file.ciphertext.plaintext.pad = 16
    /\ call.op = "store_password"
    /\ file.size = 96

\* Both processes have written and closed the file.
BothClosed ==
    /\ writers # NoWriters
    /\ \A p \in Procs : writers.proc[p].pc = "closed"

\* The writes overlapped: each process opened the file before the other
\* closed it.
Overlapped ==
    /\ Len(writers.log) >= 2
    /\ writers.log[1][2] = "open"
    /\ writers.log[2][2] = "open"

\* The process that closed the file last.
LastWriter == writers.log[Len(writers.log)][1]

\* C18 as stated: when two processes that loaded the same file have each
\* made one call that wrote it, the writes overlapping, the file holds the
\* bytes of the process that closed it last and nothing else, and decrypt
\* of it returns the entries of that process.
C18_LastWriteWins ==
    (BothClosed /\ Overlapped) =>
        /\ file = writers.proc[LastWriter].bytes
        /\ decrypt(file, PassphraseOf(key)).error = "none"
        /\ decrypt(file, PassphraseOf(key)).data = writers.proc[LastWriter].data

====
